---------------------------- MODULE Spec2Model ----------------------------
(***************************************************************************)
(* Model of the CaptiveNut FreeCAD extension (src/CaptiveNut.py).          *)
(*                                                                         *)
(* The state is the host document (objects and the PartDesign body's       *)
(* feature list), the process-wide list _ACTIVE_WORKFLOWS, the editor's    *)
(* edit session, the stack of open modal question boxes, and, for every    *)
(* operation (one run of CaptiveNutCommand.Activated on the pattern / DXF  *)
(* source, and every CaptiveNutSketchWorkflow instance), its locals, its   *)
(* timer and the ordered list of what it did (dialogs shown, console       *)
(* lines, document and body insertions).                                   *)
(*                                                                         *)
(* A handler is one action up to the point where it hands control back to  *)
(* the event loop: its return, or a QMessageBox.question, whose nested     *)
(* event loop lets timers of other workflows fire before the answer.       *)
(* Exceptions raised by the host (document, sketcher, boolean cut) are     *)
(* inputs of the actions.                                                  *)
(***************************************************************************)
EXTENDS Integers, Sequences, FiniteSets, TLC

\* ------------------------------------------------------------------ bounds
\* Largest number of nodes of a drawing in the traversal's own specification.
MaxNodes == 3
\* Coordinates of the face and body centroids range over -MaxCoord..MaxCoord.
MaxCoord == 1
\* Largest number of placement points one source yields in the model
\* (circles drawn in a sketch, count of a pattern).
MaxPoints == 2
\* The poll counter saturates here (polling itself is never bounded).
MaxPolls == 2
\* Largest count of a pattern in the pattern generator's own specification.
MaxCount == 3

\* ------------------------------------------------------- program constants
\* dialog defaults (CaptiveNutDialog.__init__)
DefaultPocketDepth == 6
DefaultHoleDepth == 20
MinHoleDepth == 1
DefaultSpacing == 20
MinSpacing == 1
DefaultRadius == 30
DefaultCount == 3
DefaultCountersinkAngle == 90
\* the length of the hole of make_preview for "Through All"
ThroughAllLength == 1000
\* the range of the count spin box
MinCount == 1
MaxSpinCount == 100

\* ------------------------------------------------------------- identities
\* Operation Cmd is the synchronous run of Activated on the pattern or DXF
\* source; the other operations are the sketch workflow instances.
Cmd == 0
Workflows == {1, 2}
\* The instance of a behaviour in which the command is invoked once.
Solo == {1}
Ops == {Cmd} \cup Workflows

HoleTypes == {"Through All", "Blind Hole", "Countersunk"}
\* The hole depths entered in the dialog.
HoleDepths == {MinHoleDepth, DefaultHoleDepth}
Sources == {"Sketch Circles", "Import DXF", "Pattern Generator"}

\* Where the host raises inside create_partdesign_pocket ("none": it does
\* not).  Each value stands for the first host call after the step's
\* doc.addObject: the attachment of the nut sketch (l.427), the body.addObject
\* of the nut pair (l.472), the attachment of the bolt sketch (l.483), the
\* body.addObject of the bolt pair (l.513).
FailSteps == {"none", "nut_sketch", "nut_pocket", "bolt_sketch", "bolt_hole"}
\* Where the host raises inside the boolean cut (l.404-407 / l.719-722).
CutFails == {"none", "addObject", "recompute"}

VARIABLES
    op,        \* op[o]: the operation's locals (phase, dialog_data, centers, ...)
    doc,       \* objects of App.ActiveDocument
    body,      \* objects added to the PartDesign body (body.addObject)
    active,    \* _ACTIVE_WORKFLOWS, a list
    timer,     \* timer[w]: the QTimer self.timer refers to
    inEdit,    \* Gui.ActiveDocument.getInEdit(): 0 (None) or the owner of the sketch in edit
    modal,     \* stack of operations whose QMessageBox.question is open
    log,       \* log[o]: what the operation did, in order
    geometry,  \* geometry[w]: sketch.Geometry of the workflow's user sketch
    polled,    \* polled[w]: check_sketch_closed calls, saturating at MaxPolls
    cancelled, \* cancelled[w]: cleanup() was called from outside while awaiting the edit
    dxf,       \* the drawing, filter and result of one extract_centers_from_dxf
    pv,        \* the face, body and result of one make_preview
    pat,       \* the input and result of one pattern generation
    dlg,       \* the widgets of one CaptiveNutDialog
    asm,       \* the input and result of one assembly by make_preview
    prof       \* an insert, a point and the profiles both paths draw for it

\* The workflow state.
wvars == <<op, doc, body, active, timer, inEdit, modal, log, geometry, polled,
           cancelled>>
\* The state of the function-level specifications.
fvars == <<dxf, pv, pat, dlg, asm, prof>>
vars == <<op, doc, body, active, timer, inEdit, modal, log, geometry, polled,
          cancelled, dxf, pv, pat, dlg, asm, prof>>

\* ------------------------------------------------------------------ values
NoTimer == [kind |-> "none", on |-> FALSE]

\* dialog_data and is_partdesign of an operation (l.306-322, l.298-299); the
\* value an operation holds before it starts and after it has returned.
NoData == [is_partdesign |-> FALSE, auto_boolean |-> FALSE,
           hole_type |-> "Through All", pocket_depth |-> 0, hole_depth |-> 0,
           pattern_type |-> "Linear", base_point |-> <<>>, count |-> 0]

\* A token of the base-point text: numeric (float() parses it to v) or not.
Num(v) == [ok |-> TRUE, v |-> v]
Bad == [ok |-> FALSE, v |-> 0]

\* The base-point field as the dialog fills it in (l.86), split into tokens:
\* the coordinates of the face's centroid.
DefaultBasePoint == <<Num(0), Num(0), Num(0)>>

\* The pattern fields are the dialog's defaults (l.84, l.86, l.89) unless the
\* pattern source sets them.
DialogData(pd, auto, hole, hole_depth) ==
    [is_partdesign |-> pd, auto_boolean |-> auto, hole_type |-> hole,
     pocket_depth |-> DefaultPocketDepth, hole_depth |-> hole_depth,
     pattern_type |-> "Linear", base_point |-> DefaultBasePoint,
     count |-> DefaultCount]

\* Locals of an operation: where it is, its source, its data, its centers.
OpRec(phase, source, d, centers) ==
    [phase |-> phase, source |-> source, d |-> d, centers |-> centers]

IdleOp == OpRec("idle", "none", NoData, <<>>)

\* An object of the document: kind, owning operation, 1-based point index
\* (0 when the object is not per point), pocket Type and Length.
Obj(kind, o, i, type, len) ==
    [kind |-> kind, o |-> o, i |-> i, type |-> type, len |-> len]

\* One thing an operation did.
Ev(ch, what, i) == [ch |-> ch, what |-> what, i |-> i]

\* The mutable part create_partdesign_pocket and the commit work on.
Eff(d, b, l) == [doc |-> d, body |-> b, log |-> l, raised |-> FALSE]

DocAdd(e, x) ==
    [e EXCEPT !.doc = @ \cup {x}, !.log = Append(@, Ev("doc", x.kind, x.i))]
BodyAdd(e, x) ==
    [e EXCEPT !.body = @ \cup {x}, !.log = Append(@, Ev("body", x.kind, x.i))]
Say(e, ch, what, i) == [e EXCEPT !.log = Append(@, Ev(ch, what, i))]
\* The host raises: an exception leaves the call.
Raise(e, what, i) ==
    [e EXCEPT !.raised = TRUE, !.log = Append(@, Ev("raise", what, i))]


\* ------------------------------------------- create_partdesign_pocket
\* l.499-511: the Type of the bolt-hole pocket (1 = ThroughAll, 0 = Blind).
BoltHoleType(hole_type) ==
    IF hole_type = "Through All" THEN "ThroughAll" ELSE "Blind"

\* l.499-511: the Length of the bolt-hole pocket; not set (0) for ThroughAll.
BoltHoleLength(hole_type, hole_depth) ==
    IF hole_type = "Through All" THEN 0 ELSE hole_depth

CountersinkWarning_Silent(e, hole_type, i) == e

\* l.501-506: the warning box shown when a countersunk hole is requested.
CountersinkWarning(e, hole_type, i) ==
    IF hole_type = "Countersunk"
    THEN Say(e, "dialog", "Countersink Not Supported", i)
    ELSE e

\* l.415-516.  e: the document, body and log so far; o: the operation;
\* i: the 1-based index of the point; fail: where the host raises.
create_partdesign_pocket(e, o, i, pocket_depth, hole_type, hole_depth, fail) ==
    LET nut_sketch  == Obj("NutSketch", o, i, "-", 0)
        nut_pocket  == Obj("NutPocket", o, i, "Blind", pocket_depth)
        bolt_sketch == Obj("BoltSketch", o, i, "-", 0)
        bolt_hole   == Obj("BoltHole", o, i, BoltHoleType(hole_type),
                           BoltHoleLength(hole_type, hole_depth))
        e1 == DocAdd(e, nut_sketch)                               \* l.419
    IN  IF fail = "nut_sketch" THEN Raise(e1, fail, i)                    \* l.420-462
        ELSE
        LET e2 == DocAdd(e1, nut_pocket)                          \* l.465-470
        IN  IF fail = "nut_pocket" THEN Raise(e2, fail, i)                \* l.472
            ELSE
            LET e3 == BodyAdd(BodyAdd(e2, nut_sketch), nut_pocket)  \* l.472-473
                e4 == DocAdd(e3, bolt_sketch)                       \* l.477
            IN  IF fail = "bolt_sketch" THEN Raise(e4, fail, i)             \* l.478-491
                ELSE
                LET e5 == DocAdd(e4, bolt_hole)                     \* l.494-497
                    e6 == CountersinkWarning(e5, hole_type, i)      \* l.499-511
                IN  IF fail = "bolt_hole" THEN Raise(e6, fail, i)           \* l.513
                    ELSE BodyAdd(BodyAdd(e6, bolt_sketch), bolt_hole) \* l.513-514

\* ------------------------------------------------- the body-path commit
RECURSIVE BodyLoop_Abort(_, _, _, _, _, _)
BodyLoop_Abort(e, o, k, n, d, fails) ==
    IF k >= n THEN e
    ELSE LET e0 == Say([e EXCEPT !.raised = FALSE], "call",
                       "create_partdesign_pocket", k + 1)
             e1 == create_partdesign_pocket(e0, o, k + 1, d.pocket_depth,
                       d.hole_type, d.hole_depth, fails[k + 1])
         IN  IF e1.raised
             THEN Say(e1, "console", "Failed pocket", k + 1)
             ELSE BodyLoop_Abort(e1, o, k + 1, n, d, fails)

\* l.368-380 and l.685-698: for i, center in enumerate(centers), from the
\* 0-based index k on; n = len(centers); d: dialog_data; fails[i]: where the
\* host raises for point i.  The except clause logs "Failed pocket #{i+1}".
RECURSIVE BodyLoop(_, _, _, _, _, _)
BodyLoop(e, o, k, n, d, fails) ==
    IF k >= n THEN e
    ELSE LET e0 == Say([e EXCEPT !.raised = FALSE], "call",
                       "create_partdesign_pocket", k + 1)
             e1 == create_partdesign_pocket(e0, o, k + 1, d.pocket_depth,
                       d.hole_type, d.hole_depth, fails[k + 1])
             e2 == IF e1.raised
                   THEN Say(e1, "console", "Failed pocket", k + 1)
                   ELSE e1
         IN  BodyLoop(e2, o, k + 1, n, d, fails)

\* ------------------------------------------------------- the boolean cut
Preview(o) == Obj("Preview", o, 0, "-", 0)
CutObj(o) == Obj("Cut", o, 0, "-", 0)

\* l.404-407 and l.719-722: doc.addObject("Part::Cut"), Base, Tool,
\* recompute; cutFail: where the host raises.
BooleanCut(e, o, cutFail) ==
    IF cutFail = "addObject" THEN Raise(e, "cut", 0)
    ELSE LET e1 == DocAdd(e, CutObj(o))
         IN  IF cutFail = "recompute" THEN Raise(e1, "cut", 0) ELSE e1

\* --------------------------------------------------------- point sources
\* A point or a vector is a triple <<x, y, z>>.
VAdd(p, q) == <<p[1] + q[1], p[2] + q[2], p[3] + q[3]>>
VSub(p, q) == <<p[1] - q[1], p[2] - q[2], p[3] - q[3]>>
Scale(p, k) == <<k * p[1], k * p[2], k * p[3]>>
Dot(p, q) == p[1] * q[1] + p[2] * q[2] + p[3] * q[3]

\* Base-point texts after .replace(',', ' ').split() (l.337).
BaseTexts == { <<Num(0), Num(0), Num(0)>>, <<Num(5), Num(0), Num(10)>>,
               <<Num(0), Num(0)>>, <<Bad, Num(0), Num(0)>>,
               <<Num(0), Num(0), Num(0), Bad>> }

\* cos and sin of k * 90 degrees: the polar pattern is modelled for an angle
\* step of 90 degrees, where they are integers.
Cos90(k) == CASE k % 4 = 0 -> 1 [] k % 4 = 2 -> -1 [] OTHER -> 0
Sin90(k) == CASE k % 4 = 1 -> 1 [] k % 4 = 3 -> -1 [] OTHER -> 0

\* l.338: base = Vector(float(t[0]), float(t[1]), float(t[2])) raises when
\* there are fewer than three tokens or one of the first three is not numeric.
BaseParses(toks) == Len(toks) >= 3 /\ \A j \in 1..3 : toks[j].ok

PatternCenters_OneBased(toks, ptype, count, spacing, radius) ==
    LET base == <<toks[1].v, toks[2].v, toks[3].v>>
    IN  [j \in 1..count |->
            IF ptype = "Linear"
            THEN VAdd(base, <<j * spacing, 0, 0>>)
            ELSE <<base[1] + radius * Cos90(j),
                   base[2] + radius * Sin90(j), base[3]>>]

\* l.340-351: the centers of a pattern, index i = 0..count-1.
PatternCenters(toks, ptype, count, spacing, radius) ==
    LET base == <<toks[1].v, toks[2].v, toks[3].v>>
    IN  [j \in 1..count |->
            IF ptype = "Linear"
            THEN VAdd(base, <<(j - 1) * spacing, 0, 0>>)
            ELSE <<base[1] + radius * Cos90(j - 1),
                   base[2] + radius * Sin90(j - 1), base[3]>>]

\* A drawing, as importDXF.open returns it: nodes 1..Len(parent), the root
\* is node 1 and parent[v] < v; proxy[v] is "noproxy" (the object has no
\* Proxy), "nolayer" (a Proxy without a layer attribute) or the layer name;
\* edges[v] lists the edges of the node's Shape, "circle" or "line".
Tree(parent, proxy, edges) == [parent |-> parent, proxy |-> proxy, edges |-> edges]

\* The center of the j-th edge of node v, when it is circular.
EdgeCenter(v, j) == <<v, j, 0>>

RECURSIVE OwnCenters(_, _, _)
\* l.541-544: the centers of the circular edges of node v, from edge j on.
OwnCenters(t, v, j) ==
    IF j > Len(t.edges[v]) THEN <<>>
    ELSE (IF t.edges[v][j] = "circle" THEN <<EdgeCenter(v, j)>> ELSE <<>>)
         \o OwnCenters(t, v, j + 1)

Pruned_Never(t, v, layer_filter) == FALSE

\* l.538-540: the node is cut off, with all below it, when it has a Proxy,
\* the filter is not "All" and getattr(obj.Proxy, 'layer', None) differs
\* from the filter.
Pruned(t, v, layer_filter) ==
    /\ t.proxy[v] # "noproxy"
    /\ layer_filter # "All"
    /\ t.proxy[v] # layer_filter

RECURSIVE traverse(_, _, _), TraverseKids(_, _, _, _)
\* l.536-547: traverse(obj), depth first.
traverse(t, v, layer_filter) ==
    IF Pruned(t, v, layer_filter) THEN <<>>
    ELSE OwnCenters(t, v, 1) \o TraverseKids(t, v, v + 1, layer_filter)

\* l.545-546: for child in obj.OutList, the children u >= from of node v.
TraverseKids(t, v, from, layer_filter) ==
    IF from > Len(t.parent) THEN <<>>
    ELSE (IF t.parent[from] = v THEN traverse(t, from, layer_filter) ELSE <<>>)
         \o TraverseKids(t, v, from + 1, layer_filter)

Imported(o) == Obj("ImportedDrawing", o, 0, "-", 0)

\* Where the host raises inside extract_centers_from_dxf: in importDXF.open
\* ("open"), in the traversal ("traverse", e.g. an edge whose Curve cannot be
\* read); "null": open returns nothing.
DxfFails == {"none", "open", "null", "traverse"}

\* l.529-552.  Returns the effects and the centers.
extract_centers_from_dxf(e, o, t, layer_filter, fail) ==
    IF fail = "open"
    THEN [e |-> Say(Raise(e, "dxf", 0), "console", "DXF processing error", 0),
          centers |-> <<>>]
    ELSE IF fail = "null" THEN [e |-> e, centers |-> <<>>]
    ELSE LET e1 == [e EXCEPT !.doc = @ \cup {Imported(o)}]          \* l.533
         IN  IF fail = "traverse"
             THEN [e |-> Say(Raise(e1, "dxf", 0), "console",
                             "DXF processing error", 0),
                   centers |-> <<>>]
             ELSE [e |-> [e1 EXCEPT !.doc = @ \ {Imported(o)}],     \* l.549
                   centers |-> traverse(t, 1, layer_filter)]

\* The drawings and filters the command is run on.
DxfSamples ==
    { Tree(<<0>>, <<"noproxy">>, << <<"line">> >>),
      Tree(<<0>>, <<"L1">>, << <<"line", "circle">> >>),
      Tree(<<0, 1>>, <<"noproxy", "L1">>, << <<"circle">>, <<"circle">> >>),
      Tree(<<0, 1>>, <<"L2", "L1">>, << <<>>, <<"circle">> >>) }
DxfFilters == {"All", "L1"}

\* The geometry of a user sketch: a list of primitives, "circle" or "line";
\* the j-th primitive, when a circle, has its center at (j, 0) in the
\* sketch's frame.
Geometries == UNION {[1..n -> {"circle", "line"}] : n \in 0..MaxPoints}

\* sketch.Placement of the user sketch: the frame of the target face.
SketchOrigin == <<0, 0, 10>>

RECURSIVE extract_centers_from_sketch(_, _)
\* l.519-527: the world-space centers of the primitives that have a Radius
\* and a Center, from primitive j on.
extract_centers_from_sketch(geo, j) ==
    IF j > Len(geo) THEN <<>>
    ELSE (IF geo[j] = "circle" THEN <<VAdd(<<j, 0, 0>>, SketchOrigin)>> ELSE <<>>)
         \o extract_centers_from_sketch(geo, j + 1)

UserSketch(o) == Obj("UserSketch", o, 0, "-", 0)

\* ------------------------------------------------- Activated, l.356-412
QuestionTitles == {"Create Pockets in Body?", "Confirm Boolean Cut",
                   "Create Pockets?"}

\* l.356-401: from the centers to the return or to the question box.
Activated_PointsReady(e, o, d, centers) ==
    IF centers = <<>>
    THEN [e |-> Say(e, "dialog", "No Centers", 0), phase |-> "done"]      \* l.356-358
    ELSE IF d.is_partdesign
    THEN IF d.auto_boolean
         THEN [e |-> Say(e, "dialog", "Create Pockets in Body?", Len(centers)),
               phase |-> "confirm"]                                        \* l.362
         ELSE [e |-> Say(e, "console", "Ready to create", Len(centers)),
               phase |-> "done"]                                           \* l.383
    ELSE LET e1 == DocAdd(e, Preview(o))                                   \* l.385-394
         IN  IF d.auto_boolean
             THEN [e |-> Say(e1, "dialog", "Confirm Boolean Cut", Len(centers)),
                   phase |-> "confirm"]                                    \* l.397
             ELSE [e |-> Say(e1, "console", "Preview created", 0),
                   phase |-> "done"]                                       \* l.412

Activated_Reply_IgnoreAnswer(e, o, d, n, yes, fails, cutFail) ==
    LET e0 == Say(e, "reply", IF yes THEN "Yes" ELSE "No", 0)
    IN  IF d.is_partdesign
        THEN Say(BodyLoop(e0, o, 0, n, d, fails), "console", "pockets added", n)
        ELSE LET e1 == BooleanCut(e0, o, cutFail)
             IN  IF e1.raised
                 THEN Say(e1, "dialog", "Boolean Failed", 0)
                 ELSE Say(e1, "console", "inserts placed and cut", n)

Activated_Reply_Rollback(e, o, d, n, yes, fails, cutFail) ==
    LET e0 == Say(e, "reply", IF yes THEN "Yes" ELSE "No", 0)
    IN  IF ~yes THEN e0
        ELSE IF d.is_partdesign
        THEN Say(BodyLoop(e0, o, 0, n, d, fails), "console", "pockets added", n)
        ELSE LET e1 == BooleanCut(e0, o, cutFail)
             IN  IF e1.raised
                 THEN [Say(e1, "dialog", "Boolean Failed", 0)
                          EXCEPT !.doc = @ \ {Preview(o)}]
                 ELSE Say(e1, "console", "inserts placed and cut", n)

\* l.367-381 and l.402-410: after the answer to the question box.
Activated_Reply(e, o, d, n, yes, fails, cutFail) ==
    LET e0 == Say(e, "reply", IF yes THEN "Yes" ELSE "No", 0)
    IN  IF ~yes THEN e0
        ELSE IF d.is_partdesign
        THEN Say(BodyLoop(e0, o, 0, n, d, fails), "console", "pockets added", n)
        ELSE LET e1 == BooleanCut(e0, o, cutFail)
             IN  IF e1.raised
                 THEN Say(e1, "dialog", "Boolean Failed", 0)               \* l.409-410
                 ELSE Say(e1, "console", "inserts placed and cut", n)      \* l.408

\* ------------------------------------------ CaptiveNutSketchWorkflow
RECURSIVE RemoveFirst(_, _)
\* list.remove(x): the list without its first x.
RemoveFirst(seq, x) ==
    IF seq = <<>> THEN <<>>
    ELSE IF Head(seq) = x THEN Tail(seq)
    ELSE <<Head(seq)>> \o RemoveFirst(Tail(seq), x)

InList(seq, x) == \E j \in 1..Len(seq) : seq[j] = x

cleanup_NoRemove(w, act, tm) ==
    [active |-> act,
     timer |-> IF tm.kind # "none" /\ tm.on THEN [tm EXCEPT !.on = FALSE] ELSE tm]

cleanup_KeepTimer(w, act, tm) ==
    [active |-> IF InList(act, w) THEN RemoveFirst(act, w) ELSE act,
     timer |-> tm]

\* l.664-668: cleanup(); act: _ACTIVE_WORKFLOWS, tm: self.timer.
cleanup(w, act, tm) ==
    [active |-> IF InList(act, w) THEN RemoveFirst(act, w) ELSE act,
     timer |-> IF tm.kind # "none" /\ tm.on THEN [tm EXCEPT !.on = FALSE] ELSE tm]

on_sketch_finished_AskFirst(e, o, d, centers) ==
    IF centers = <<>>
    THEN [e |-> Say(e, "dialog", "No Circles", 0), phase |-> "done"]
    ELSE IF d.is_partdesign
    THEN IF d.auto_boolean
         THEN [e |-> Say(e, "dialog", "Create Pockets?", Len(centers)),
               phase |-> "confirm"]
         ELSE [e |-> Say(e, "console", "Auto-create disabled", 0),
               phase |-> "done"]
    ELSE IF d.auto_boolean
         THEN [e |-> Say(e, "dialog", "Confirm Boolean Cut", Len(centers)),
               phase |-> "confirm"]
         ELSE [e |-> Say(DocAdd(e, Preview(o)), "console",
                         "Preview created from sketch", 0),
               phase |-> "done"]

\* l.670-717: from the extraction to the return or to the question box.
on_sketch_finished(e, o, d, centers) ==
    IF centers = <<>>
    THEN [e |-> Say(e, "dialog", "No Circles", 0), phase |-> "done"]      \* l.673-675
    ELSE IF d.is_partdesign
    THEN IF d.auto_boolean
         THEN [e |-> Say(e, "dialog", "Create Pockets?", Len(centers)),
               phase |-> "confirm"]                                        \* l.679
         ELSE [e |-> Say(e, "console", "Auto-create disabled", 0),
               phase |-> "done"]                                           \* l.701
    ELSE LET e1 == DocAdd(e, Preview(o))                                   \* l.703-710
         IN  IF d.auto_boolean
             THEN [e |-> Say(e1, "dialog", "Confirm Boolean Cut", Len(centers)),
                   phase |-> "confirm"]                                    \* l.713
             ELSE [e |-> Say(e1, "console", "Preview created from sketch", 0),
                   phase |-> "done"]                                       \* l.725

\* l.684-699 and l.718-729: after the answer to the question box.
on_sketch_reply(e, o, d, n, yes, fails, cutFail) ==
    LET e0 == Say(e, "reply", IF yes THEN "Yes" ELSE "No", 0)
    IN  IF ~yes THEN e0
        ELSE IF d.is_partdesign
        THEN Say(BodyLoop(e0, o, 0, n, d, fails), "console", "pockets added", n)
        ELSE LET e1 == BooleanCut(e0, o, cutFail)
             IN  IF e1.raised
                 THEN Say(e1, "console", "Sketch processing error", 0)     \* l.726-729
                 ELSE Say(e1, "console", "Boolean cut performed", 0)       \* l.723

\* ----------------------------------------------------------------- Init
DxfOff == [pc |-> "off", tree |-> Tree(<<0>>, <<"noproxy">>, << <<>> >>),
           filter |-> "All", centers |-> <<>>]
PvOff == [pc |-> "off"]
PatOff == [pc |-> "off"]
DlgOff == [pc |-> "off"]
AsmOff == [pc |-> "off"]
ProfOff == [pc |-> "off"]

InitWorkflow ==
    /\ op = [o \in Ops |-> IdleOp]
    /\ doc = {}
    /\ body = {}
    /\ active = <<>>
    /\ timer = [w \in Workflows |-> NoTimer]
    /\ inEdit = 0
    /\ modal = <<>>
    /\ log = [o \in Ops |-> <<>>]
    /\ geometry = [w \in Workflows |-> <<>>]
    /\ polled = [w \in Workflows |-> 0]
    /\ cancelled = [w \in Workflows |-> FALSE]

Init ==
    /\ InitWorkflow
    /\ dxf = DxfOff /\ pv = PvOff /\ pat = PatOff /\ dlg = DlgOff
    /\ asm = AsmOff /\ prof = ProfOff

\* -------------------------------------------------------------- actions
PatternTypes == {"Linear", "Polar"}

\* What an operation keeps once a handler has run to r.phase: the centers
\* are live while the question box is open and gone after the return.
Keep(r, source, d, centers) ==
    IF r.phase = "confirm" THEN OpRec("confirm", source, d, centers)
    ELSE OpRec(r.phase, source, d, <<>>)

\* The host failures that can happen after the answer: one failing step per
\* point when the body loop runs, one for the cut when the cut runs.
FailPlans(r, yes, steps) ==
    IF yes /\ r.d.is_partdesign THEN [1..Len(r.centers) -> steps]
    ELSE {[j \in 1..Len(r.centers) |-> "none"]}
CutPlans(r, yes, cuts) ==
    IF yes /\ ~r.d.is_partdesign THEN cuts ELSE {"none"}

\* The inputs the sketch workflow is run on: the dialog's settings, whether
\* the host raises in setup_sketch, what the user draws, where the host
\* raises in the commit.
Inputs(pd, auto, hole, hd, setupFails, geos, steps, cuts) ==
    [pd |-> pd, auto |-> auto, hole |-> hole, hd |-> hd,
     setupFails |-> setupFails, geos |-> geos, steps |-> steps, cuts |-> cuts]

\* Every input, for one instance.
AllInputs == Inputs(BOOLEAN, BOOLEAN, HoleTypes, HoleDepths, BOOLEAN,
                    Geometries, FailSteps, CutFails)
\* The inputs of the behaviours with two instances: both destinations, with
\* and without the question, the default hole, sketches with no circle, one
\* circle and a line and a circle, and one failure of each kind.
PairInputs == Inputs(BOOLEAN, BOOLEAN, {"Through All"}, {DefaultHoleDepth},
                     {FALSE},
                     {g \in Geometries : g \in {<<>>, <<"circle">>, <<"line", "circle">>}},
                     {"none", "bolt_sketch"}, {"none", "recompute"})

\* Activated (l.286-412) with mode "Pattern Generator".  The guard: a face
\* is selected and planar and the dialog is accepted (l.288-304), and no
\* modal box is open.
ActivatedPattern ==
    /\ modal = <<>>
    /\ \A o \in Ops : op[o].phase = "idle"
    /\ \E pd \in BOOLEAN, auto \in BOOLEAN, hole \in HoleTypes, hd \in HoleDepths,
          toks \in BaseTexts, ptype \in PatternTypes, count \in 1..MaxPoints :
          LET d == [DialogData(pd, auto, hole, hd) EXCEPT
                       !.pattern_type = ptype, !.base_point = toks,
                       !.count = count]
              e0 == Eff(doc, body, log[Cmd])
              centers == IF BaseParses(toks)
                         THEN PatternCenters(toks, ptype, count,
                                             DefaultSpacing, DefaultRadius)
                         ELSE <<>>
              r == IF ~BaseParses(toks)
                   THEN [e |-> Say(e0, "dialog", "Invalid pattern input", 0),
                         phase |-> "done"]                          \* l.352-354
                   ELSE Activated_PointsReady(e0, Cmd, d, centers)
          IN  /\ op' = [op EXCEPT ![Cmd] = Keep(r, "Pattern Generator", d, centers)]
              /\ doc' = r.e.doc
              /\ body' = r.e.body
              /\ log' = [log EXCEPT ![Cmd] = r.e.log]
              /\ modal' = IF r.phase = "confirm" THEN <<Cmd>> ELSE modal
    /\ UNCHANGED <<active, timer, inEdit, geometry, polled, cancelled, fvars>>

\* Activated (l.286-412) with mode "Import DXF".
ActivatedDXF ==
    /\ modal = <<>>
    /\ \A o \in Ops : op[o].phase = "idle"
    /\ \E pd \in BOOLEAN, auto \in BOOLEAN, hole \in HoleTypes, hd \in HoleDepths,
          isfile \in BOOLEAN, t \in DxfSamples, f \in DxfFilters,
          fail \in DxfFails :
          LET d == DialogData(pd, auto, hole, hd)
              e0 == Eff(doc, body, log[Cmd])
              x == extract_centers_from_dxf(e0, Cmd, t, f, fail)
              r == IF ~isfile
                   THEN [e |-> Say(e0, "dialog", "Invalid DXF file", 0),
                         phase |-> "done"]                          \* l.331-333
                   ELSE Activated_PointsReady(x.e, Cmd, d, x.centers)
          IN  /\ op' = [op EXCEPT ![Cmd] = Keep(r, "Import DXF", d, x.centers)]
              /\ doc' = r.e.doc
              /\ body' = r.e.body
              /\ log' = [log EXCEPT ![Cmd] = r.e.log]
              /\ modal' = IF r.phase = "confirm" THEN <<Cmd>> ELSE modal
    /\ UNCHANGED <<active, timer, inEdit, geometry, polled, cancelled, fvars>>

\* The answer to the question box of Activated (l.362-381, l.397-410).
ActivatedReply ==
    /\ modal # <<>> /\ Head(modal) = Cmd
    /\ op[Cmd].phase = "confirm"
    /\ \E yes \in BOOLEAN :
       \E fails \in FailPlans(op[Cmd], yes, FailSteps),
          cutFail \in CutPlans(op[Cmd], yes, CutFails) :
          LET e == Activated_Reply(Eff(doc, body, log[Cmd]), Cmd, op[Cmd].d,
                                   Len(op[Cmd].centers), yes, fails, cutFail)
          IN  /\ doc' = e.doc
              /\ body' = e.body
              /\ log' = [log EXCEPT ![Cmd] = e.log]
    /\ op' = [op EXCEPT ![Cmd] = OpRec("done", @.source, @.d, <<>>)]
    /\ modal' = Tail(modal)
    /\ UNCHANGED <<active, timer, inEdit, geometry, polled, cancelled, fvars>>

\* Activated with mode "Sketch Circles" (l.325-328): the constructor of the
\* workflow, __init__ and setup_sketch (l.621-650).  setupFails: the host
\* raises in get_face_subname (l.636), after the sketch was added.  setEdit
\* (l.645) ends the edit session of another sketch, if one is open, with
\* whatever was drawn in it.
ActivatedSketchOn(w, in) ==
    /\ modal = <<>>
    /\ op[w].phase = "idle" /\ op[Cmd].phase = "idle"
    /\ \A u \in Workflows : u < w => op[u].phase # "idle"
    /\ \E pd \in in.pd, auto \in in.auto, hole \in in.hole, hd \in in.hd,
          setupFails \in in.setupFails,
          g \in IF inEdit = 0 THEN {<<>>} ELSE in.geos :
          LET d == DialogData(pd, auto, hole, hd)
              e1 == DocAdd(Eff(doc, body, log[w]), UserSketch(w))   \* l.635
              e2 == IF pd THEN BodyAdd(e1, UserSketch(w)) ELSE e1   \* l.641-642
          IN  IF setupFails
              THEN /\ op' = [op EXCEPT ![w] = OpRec("failed", "Sketch Circles",
                                                    d, <<>>)]
                   /\ doc' = e1.doc
                   /\ log' = [log EXCEPT ![w] = Raise(e1, "setup", 0).log]
                   /\ UNCHANGED <<body, active, timer, inEdit, geometry>>
              ELSE /\ op' = [op EXCEPT ![w] = OpRec("delay", "Sketch Circles",
                                                    d, <<>>)]
                   /\ doc' = e2.doc
                   /\ body' = e2.body
                   /\ log' = [log EXCEPT ![w] = e2.log]
                   /\ geometry' = IF inEdit = 0 THEN geometry
                                  ELSE [geometry EXCEPT ![inEdit] = g]
                   /\ inEdit' = w                                    \* l.645
                   /\ timer' = [timer EXCEPT ![w] =
                                   [kind |-> "single", on |-> TRUE]] \* l.647-650
                   /\ active' = Append(active, w)                    \* l.632
    /\ UNCHANGED <<modal, polled, cancelled, fvars>>

ActivatedSketch(w) == ActivatedSketchOn(w, AllInputs)

\* The user draws and leaves the edit session.
CloseEditOn(in) ==
    /\ modal = <<>>
    /\ inEdit # 0
    /\ \E g \in in.geos : geometry' = [geometry EXCEPT ![inEdit] = g]
    /\ inEdit' = 0
    /\ UNCHANGED <<op, doc, body, active, timer, modal, log, polled, cancelled,
                   fvars>>

CloseEdit == CloseEditOn(AllInputs)

\* start_polling (l.652-655), the timeout of the single-shot timer.
start_polling(w) ==
    /\ timer[w] = [kind |-> "single", on |-> TRUE]
    /\ timer' = [timer EXCEPT ![w] = [kind |-> "poll", on |-> TRUE]]
    /\ op' = [op EXCEPT ![w].phase = "polling"]
    /\ UNCHANGED <<doc, body, active, inEdit, modal, log, geometry, polled,
                   cancelled, fvars>>

Bump(n) == IF n < MaxPolls THEN n + 1 ELSE n

SessionClosed_Always(in_edit) == TRUE

\* l.658-659: in_edit is None.
SessionClosed(in_edit) == in_edit = 0

self_sketch_ByName(w) == 1

\* l.672: self.sketch, the sketch the instance created in setup_sketch.
self_sketch(w) == w

\* check_sketch_closed (l.657-662), a timeout of the poll timer, with the
\* part of on_sketch_finished (l.670-731) that runs before the question box
\* or, when no question is asked, all of it.
check_sketch_closed(w) ==
    /\ timer[w] = [kind |-> "poll", on |-> TRUE]
    /\ polled' = [polled EXCEPT ![w] = Bump(@)]
    /\ IF ~SessionClosed(inEdit)
       THEN UNCHANGED <<op, doc, body, active, timer, modal, log>>
       ELSE LET c == cleanup(w, active, [timer[w] EXCEPT !.on = FALSE])  \* l.660-661
                sk == self_sketch(w)
                centers == extract_centers_from_sketch(geometry[sk], 1)  \* l.672
                e0 == Say(Eff(doc, body, log[w]), "read", "UserSketch", sk)
                r == on_sketch_finished(e0, w, op[w].d, centers)
                \* finally: self.cleanup(), unless the question box is open
                c2 == IF r.phase = "confirm" THEN c
                      ELSE cleanup(w, c.active, c.timer)
            IN  /\ op' = [op EXCEPT ![w] = Keep(r, @.source, @.d, centers)]
                /\ doc' = r.e.doc
                /\ body' = r.e.body
                /\ log' = [log EXCEPT ![w] = r.e.log]
                /\ active' = c2.active
                /\ timer' = [timer EXCEPT ![w] = c2.timer]
                /\ modal' = IF r.phase = "confirm" THEN <<w>> \o modal ELSE modal
    /\ UNCHANGED <<inEdit, geometry, cancelled, fvars>>

\* The answer to the question box of on_sketch_finished, the rest of the
\* handler and its finally clause (l.684-699, l.718-731).
SketchReplyOn(w, in) ==
    /\ modal # <<>> /\ Head(modal) = w
    /\ op[w].phase = "confirm"
    /\ \E yes \in BOOLEAN :
       \E fails \in FailPlans(op[w], yes, in.steps),
          cutFail \in CutPlans(op[w], yes, in.cuts) :
          LET e == on_sketch_reply(Eff(doc, body, log[w]), w, op[w].d,
                                   Len(op[w].centers), yes, fails, cutFail)
          IN  /\ doc' = e.doc
              /\ body' = e.body
              /\ log' = [log EXCEPT ![w] = e.log]
    /\ LET c == cleanup(w, active, timer[w])                        \* l.730-731
       IN  /\ active' = c.active
           /\ timer' = [timer EXCEPT ![w] = c.timer]
    /\ op' = [op EXCEPT ![w] = OpRec("done", @.source, @.d, <<>>)]
    /\ modal' = Tail(modal)
    /\ UNCHANGED <<inEdit, geometry, polled, cancelled, fvars>>

SketchReply(w) == SketchReplyOn(w, AllInputs)

\* The workflow instance is discarded while it waits for the edit session to
\* end: cleanup() (l.664-668) is called from outside.
Cancel(w) ==
    /\ op[w].phase \in {"delay", "polling"}
    /\ ~cancelled[w]
    /\ LET c == cleanup(w, active, timer[w])
       IN  /\ active' = c.active
           /\ timer' = [timer EXCEPT ![w] = c.timer]
    /\ cancelled' = [cancelled EXCEPT ![w] = TRUE]
    /\ UNCHANGED <<op, doc, body, inEdit, modal, log, geometry, polled, fvars>>

Next ==
    \/ ActivatedPattern
    \/ ActivatedDXF
    \/ ActivatedReply
    \/ CloseEdit
    \/ \E w \in Solo : ActivatedSketch(w)
    \/ \E w \in Solo : start_polling(w)
    \/ \E w \in Solo : check_sketch_closed(w)
    \/ \E w \in Solo : SketchReply(w)
    \/ \E w \in Solo : Cancel(w)

Spec == Init /\ [][Next]_vars

\* The timers fire: a QTimer that is active times out, also while a modal
\* box runs its own event loop.
Fairness ==
    \A w \in Workflows :
        WF_vars(start_polling(w)) /\ WF_vars(check_sketch_closed(w))

SpecLive == Spec /\ Fairness

\* Several invocations of the command with the sketch source: the instances
\* coexist, their timers interleave, a question box of one is open while the
\* poll of another fires.
NextPair ==
    \/ ActivatedPattern
    \/ ActivatedDXF
    \/ ActivatedReply
    \/ CloseEditOn(PairInputs)
    \/ \E w \in Workflows : ActivatedSketchOn(w, PairInputs)
    \/ \E w \in Workflows : start_polling(w)
    \/ \E w \in Workflows : check_sketch_closed(w)
    \/ \E w \in Workflows : SketchReplyOn(w, PairInputs)
    \/ \E w \in Workflows : Cancel(w)

SpecPair == Init /\ [][NextPair]_vars

\* ------------------------------ extract_centers_from_dxf on its own
ProxyTags == {"noproxy", "nolayer", "L1", "L2"}
LayerFilters == {"All", "L1", "L2"}
EdgeLists == { <<>>, <<"line", "circle">> }

\* Every drawing of n nodes.
Trees(n) ==
    { Tree(pa, px, ed) :
        pa \in { f \in [1..n -> 0..(n - 1)] :
                   f[1] = 0 /\ \A v \in 2..n : f[v] >= 1 /\ f[v] < v },
        px \in [1..n -> ProxyTags],
        ed \in [1..n -> EdgeLists] }

InitDxf ==
    /\ InitWorkflow
    /\ pv = PvOff /\ pat = PatOff /\ dlg = DlgOff /\ asm = AsmOff /\ prof = ProfOff
    /\ \E n \in 1..MaxNodes : \E t \in Trees(n), f \in LayerFilters :
          dxf = [pc |-> "input", tree |-> t, filter |-> f, centers |-> <<>>]

\* centers = traverse(dxf_obj) (l.548).
DxfTraverse ==
    /\ dxf.pc = "input"
    /\ dxf' = [dxf EXCEPT !.pc = "done",
                          !.centers = traverse(dxf.tree, 1, dxf.filter)]
    /\ UNCHANGED <<wvars, pv, pat, dlg, asm, prof>>

NextDxf == DxfTraverse

SpecDxf == InitDxf /\ [][NextDxf]_vars

\* ------------------------------- the orientation of make_preview on its own
\* l.560-564: the vector handed to App.Rotation.
PreviewNormal(normal, face_center, com) ==
    IF Dot(normal, VSub(face_center, com)) > 0
    THEN Scale(normal, -1)
    ELSE normal

\* l.570: App.Rotation(Vector(0, 0, 1), normal) is the rotation that takes
\* the local Z axis to normal; the image of the local vector (0, 0, k).
RotateZ(normal, k) == Scale(normal, k)

AxisDirs == { <<1, 0, 0>>, <<-1, 0, 0>>, <<0, 1, 0>>, <<0, -1, 0>>,
              <<0, 0, 1>>, <<0, 0, -1>> }
Grid == { <<x, y, z>> : x \in -MaxCoord..MaxCoord, y \in -MaxCoord..MaxCoord,
                        z \in -MaxCoord..MaxCoord }

InitPreview ==
    /\ InitWorkflow
    /\ dxf = DxfOff /\ pat = PatOff /\ dlg = DlgOff /\ asm = AsmOff /\ prof = ProfOff
    /\ \E n \in AxisDirs, f \in Grid, b \in Grid :
          \* the body's centroid does not lie in the plane of the face
          /\ Dot(n, VSub(f, b)) # 0
          /\ pv = [pc |-> "input", normal |-> n, face_center |-> f, com |-> b,
                zaxis |-> <<0, 0, 0>>, extrude |-> <<0, 0, 0>>]

\* make_preview (l.554-581), its placement: zaxis is the image of local +Z,
\* extrude the image of the direction (0, 0, -1) the pocket (l.591, l.602,
\* l.605) and the hole (l.608, l.615) are extruded along.
MakePreview ==
    /\ pv.pc = "input"
    /\ LET normal == PreviewNormal(pv.normal, pv.face_center, pv.com)
       IN  pv' = [pv EXCEPT !.pc = "done",
                            !.zaxis = RotateZ(normal, 1),
                            !.extrude = RotateZ(normal, -1)]
    /\ UNCHANGED <<wvars, dxf, pat, dlg, asm, prof>>

NextPreview == MakePreview

SpecPreview == InitPreview /\ [][NextPreview]_vars

\* --------------------------------------- the pattern generator on its own
\* The numbers typed as components of the base point.
BaseCoords == {0, 5, -5}
\* The base-point texts: every triple of numbers, and the malformed texts.
PatternTexts ==
    {<<Num(x), Num(y), Num(z)>> : x \in BaseCoords, y \in BaseCoords,
                                  z \in BaseCoords} \cup BaseTexts
\* The spacings entered (the spin box holds 1..200, l.91).
Spacings == {MinSpacing, DefaultSpacing}

InitPattern ==
    /\ InitWorkflow
    /\ dxf = DxfOff /\ pv = PvOff /\ dlg = DlgOff /\ asm = AsmOff /\ prof = ProfOff
    /\ \E toks \in PatternTexts, ptype \in PatternTypes, count \in 1..MaxCount,
          spacing \in Spacings :
          pat = [pc |-> "input", base_point |-> toks, pattern_type |-> ptype,
                 count |-> count, linear_spacing |-> spacing,
                 polar_radius |-> DefaultRadius, centers |-> <<>>]

\* The try block of the pattern source (l.336-354): the centers, or the
\* exception of the parse.
GeneratePattern ==
    /\ pat.pc = "input"
    /\ pat' = IF BaseParses(pat.base_point)
              THEN [pat EXCEPT !.pc = "done",
                       !.centers = PatternCenters(pat.base_point,
                           pat.pattern_type, pat.count, pat.linear_spacing,
                           pat.polar_radius)]
              ELSE [pat EXCEPT !.pc = "error"]
    /\ UNCHANGED <<wvars, dxf, pv, dlg, asm, prof>>

NextPattern == GeneratePattern

SpecPattern == InitPattern /\ [][NextPattern]_vars

\* --------------------------------------------------- the insert registry
\* INSERT_TYPES (l.15-26).  Lengths are in hundredths of a millimetre, so
\* that every sum and every halving the code computes is an integer.
INSERT_TYPES ==
    "M3 Captive Nut" :> [nut |-> <<550, 240>>, bolt_clearance |-> 350,
                         pocket_style |-> "hex"] @@
    "M4 Captive Nut" :> [nut |-> <<700, 320>>, bolt_clearance |-> 450,
                         pocket_style |-> "hex"] @@
    "M5 Captive Nut" :> [nut |-> <<800, 400>>, bolt_clearance |-> 550,
                         pocket_style |-> "hex"] @@
    "M6 Captive Nut" :> [nut |-> <<1000, 500>>, bolt_clearance |-> 660,
                         pocket_style |-> "hex"] @@
    "M3 Heat-Set" :> [nut |-> <<400, 400>>, bolt_clearance |-> 300,
                      pocket_style |-> "round", pocket_diameter |-> 420] @@
    "M4 Heat-Set" :> [nut |-> <<500, 500>>, bolt_clearance |-> 420,
                      pocket_style |-> "round", pocket_diameter |-> 520] @@
    "M5 Heat-Set" :> [nut |-> <<600, 600>>, bolt_clearance |-> 520,
                      pocket_style |-> "round", pocket_diameter |-> 620] @@
    "M3 Square Nut" :> [nut |-> <<550, 550>>, bolt_clearance |-> 350,
                        pocket_style |-> "rect", thickness |-> 240] @@
    "M4 Square Nut" :> [nut |-> <<700, 700>>, bolt_clearance |-> 450,
                        pocket_style |-> "rect", thickness |-> 320] @@
    "M5 Square Nut" :> [nut |-> <<800, 800>>, bolt_clearance |-> 550,
                        pocket_style |-> "rect", thickness |-> 400]

\* INSERT_TYPES[name] (l.372, l.555, l.690): the name when it is a key,
\* "KeyError" when the subscript raises.
Lookup(name) == IF name \in DOMAIN INSERT_TYPES THEN name ELSE "KeyError"

\* ---------------------------------------------------- profile synthesis
\* x / 2 for a length in hundredths: every length the registry leads to is
\* even, so the halving is exact.
Half(x) == x \div 2

\* The point (x + r cos(deg), y + r sin(deg)) of the plane; cos and sin have
\* period 360 degrees.
Pt(x, y, r, deg) == [x |-> x, y |-> y, r |-> r, deg |-> deg % 360]
\* The point moved by (-cx, -cy): its position relative to (cx, cy).
Rel(p, cx, cy) == [p EXCEPT !.x = @ - cx, !.y = @ - cy]

\* data.get("pocket_diameter", data["nut"][0] + 0.2) (l.459, l.604)
PocketDiameter(data) ==
    IF "pocket_diameter" \in DOMAIN data THEN data.pocket_diameter
    ELSE data.nut[1] + 20

NutGeometry_TightHex(insert, cx, cy) ==
    LET style == insert.pocket_style
    IN  IF style = "hex"
        THEN LET r == Half(insert.nut[1])
             IN  [kind |-> "lines",
                  segs |-> [i \in 1..6 |->
                              <<Pt(cx, cy, r, 60 * (i - 1) + 30),
                                Pt(cx, cy, r, 60 * i + 30)>>]]
        ELSE IF style = "rect"
        THEN LET w == insert.nut[1]
                 h == insert.nut[2]
                 pts == << Pt(cx - Half(w) - 50, cy - Half(h) - 50, 0, 0),
                           Pt(cx + Half(w) + 50, cy - Half(h) - 50, 0, 0),
                           Pt(cx + Half(w) + 50, cy + Half(h) + 50, 0, 0),
                           Pt(cx - Half(w) - 50, cy + Half(h) + 50, 0, 0),
                           Pt(cx - Half(w) - 50, cy - Half(h) - 50, 0, 0) >>
             IN  [kind |-> "lines",
                  segs |-> [i \in 1..4 |-> <<pts[i], pts[i + 1]>>]]
        ELSE [kind |-> "circle", center |-> Pt(cx, cy, 0, 0),
              radius |-> Half(PocketDiameter(insert))]

\* create_partdesign_pocket, l.434-460: the geometry added to the nut
\* sketch around the local center (cx, cy).
NutGeometry(insert, cx, cy) ==
    LET style == insert.pocket_style
    IN  IF style = "hex"
        THEN LET w == insert.nut[1]
                 outer == w + 100
                 r == Half(outer)
             IN  [kind |-> "lines",
                  segs |-> [i \in 1..6 |->
                              <<Pt(cx, cy, r, 60 * (i - 1) + 30),
                                Pt(cx, cy, r, 60 * i + 30)>>]]
        ELSE IF style = "rect"
        THEN LET w == insert.nut[1]
                 h == insert.nut[2]
                 clearance == 50
                 pts == << Pt(cx - Half(w) - clearance, cy - Half(h) - clearance, 0, 0),
                           Pt(cx + Half(w) + clearance, cy - Half(h) - clearance, 0, 0),
                           Pt(cx + Half(w) + clearance, cy + Half(h) + clearance, 0, 0),
                           Pt(cx - Half(w) - clearance, cy + Half(h) + clearance, 0, 0),
                           Pt(cx - Half(w) - clearance, cy - Half(h) - clearance, 0, 0) >>
             IN  [kind |-> "lines",
                  segs |-> [i \in 1..4 |-> <<pts[i], pts[i + 1]>>]]
        ELSE [kind |-> "circle", center |-> Pt(cx, cy, 0, 0),
              radius |-> Half(PocketDiameter(insert))]

\* create_partdesign_pocket, l.488-490: the circle added to the bolt sketch.
BoltGeometry(insert, cx, cy) ==
    [kind |-> "circle", center |-> Pt(cx, cy, 0, 0),
     radius |-> Half(insert.bolt_clearance)]

\* Part.makePolygon(pts): the segments between consecutive points.
makePolygon(pts) == [i \in 1..(Len(pts) - 1) |-> <<pts[i], pts[i + 1]>>]

\* make_pocket (l.583-605): the profile in the local frame of the placement
\* and the extrusion along local -Z.
make_pocket(data, depth) ==
    LET style == data.pocket_style
    IN  IF style = "hex"
        THEN LET w == data.nut[1]
                 outer == w + 100
                 pts == [i \in 1..6 |-> Pt(0, 0, Half(outer), 60 * (i - 1) + 30)]
             IN  [kind |-> "lines", segs |-> makePolygon(Append(pts, pts[1])),
                  depth |-> depth]
        ELSE IF style = "rect"
        THEN LET w == data.nut[1]
                 h == data.nut[2]
                 clearance == 50
                 pts == << Pt(0 - Half(w) - clearance, 0 - Half(h) - clearance, 0, 0),
                           Pt(Half(w) + clearance, 0 - Half(h) - clearance, 0, 0),
                           Pt(Half(w) + clearance, Half(h) + clearance, 0, 0),
                           Pt(0 - Half(w) - clearance, Half(h) + clearance, 0, 0),
                           Pt(0 - Half(w) - clearance, 0 - Half(h) - clearance, 0, 0) >>
             IN  [kind |-> "lines", segs |-> makePolygon(pts), depth |-> depth]
        ELSE [kind |-> "circle", center |-> Pt(0, 0, 0, 0),
              radius |-> Half(PocketDiameter(data)), depth |-> depth]

\* make_bolt_hole (l.607-608): a cylinder from the origin along local -Z.
make_bolt_hole(data, depth) ==
    [kind |-> "circle", center |-> Pt(0, 0, 0, 0),
     radius |-> Half(data.bolt_clearance), depth |-> depth]

\* make_countersunk_hole (l.610-617): the cylinder fused with the cone of
\* the head; the cone's height is (d_head - d_clear) / (2 tan(angle / 2)).
make_countersunk_hole(data, depth, angle) ==
    LET d_clear == data.bolt_clearance
        d_head == d_clear * 2
    IN  [kind |-> "fuse",
         bottom |-> [kind |-> "circle", center |-> Pt(0, 0, 0, 0),
                     radius |-> Half(d_clear), depth |-> depth],
         cone |-> [radius1 |-> Half(d_head), radius2 |-> Half(d_clear),
                   rise |-> d_head - d_clear, angle |-> angle]]

\* The outline of a sketch's geometry relative to (cx, cy).
RelGeometry(g, cx, cy) ==
    IF g.kind = "lines"
    THEN [kind |-> "lines",
          segs |-> [i \in 1..Len(g.segs) |->
                      <<Rel(g.segs[i][1], cx, cy), Rel(g.segs[i][2], cx, cy)>>]]
    ELSE [kind |-> "circle", center |-> Rel(g.center, cx, cy),
          radius |-> g.radius]

\* The outline of a solid of the boolean path, without its depth.
Outline(solid) ==
    IF solid.kind = "lines" THEN [kind |-> "lines", segs |-> solid.segs]
    ELSE [kind |-> "circle", center |-> solid.center, radius |-> solid.radius]

\* The local centers the sketches are drawn around.
LocalCenters == {<<x, y>> : x \in (0 - MaxCoord)..MaxCoord,
                            y \in (0 - MaxCoord)..MaxCoord}

InitProfile ==
    /\ InitWorkflow
    /\ dxf = DxfOff /\ pv = PvOff /\ pat = PatOff /\ dlg = DlgOff /\ asm = AsmOff
    /\ \E name \in DOMAIN INSERT_TYPES, c \in LocalCenters :
          prof = [pc |-> "input", insert |-> name, center |-> c]

\* Both paths draw the insert: create_partdesign_pocket its two sketches
\* around the local center, make_pocket and make_bolt_hole their solids in
\* the frame of the placement.
SynthesizeProfiles ==
    /\ prof.pc = "input"
    /\ LET data == INSERT_TYPES[prof.insert]
           cx == prof.center[1]
           cy == prof.center[2]
       IN  prof' = [pc |-> "done", insert |-> prof.insert, center |-> prof.center,
                    nut_sketch |-> NutGeometry(data, cx, cy),
                    bolt_sketch |-> BoltGeometry(data, cx, cy),
                    pocket |-> make_pocket(data, DefaultPocketDepth),
                    hole |-> make_bolt_hole(data, DefaultHoleDepth)]
    /\ UNCHANGED <<wvars, dxf, pv, pat, dlg, asm>>

NextProfile == SynthesizeProfiles

SpecProfile == InitProfile /\ [][NextProfile]_vars

\* ------------------------------------------- the assembly of make_preview
PreviewHole_AlwaysRequested(data, hole_type, hole_depth, countersink_angle) ==
    make_bolt_hole(data, hole_depth)

\* l.573-578: the hole of one point.
PreviewHole(data, hole_type, hole_depth, countersink_angle) ==
    IF hole_type = "Through All"
    THEN make_bolt_hole(data, ThroughAllLength)
    ELSE IF hole_type = "Countersunk"
    THEN make_countersunk_hole(data, hole_depth, countersink_angle)
    ELSE make_bolt_hole(data, hole_depth)

\* A solid with its Placement: Base and the vector Rotation takes local Z to.
Placed(solid, base, normal) == [solid |-> solid, base |-> base, rot |-> normal]

RECURSIVE PreviewShapes(_, _, _, _)
\* l.566-580: for center in centers, from the k-th center on; d holds the
\* insert and the hole settings.
PreviewShapes(centers, k, normal, d) ==
    IF k > Len(centers) THEN <<>>
    ELSE LET pocket == make_pocket(d.insert, d.pocket_depth)
             hole == PreviewHole(d.insert, d.hole_type, d.hole_depth,
                                 d.countersink_angle)
         IN  << Placed(pocket, centers[k], normal),
                Placed(hole, centers[k], normal) >>
             \o PreviewShapes(centers, k + 1, normal, d)

\* make_preview (l.554-581): the list handed to Part.makeCompound.
make_preview(centers, face_normal, face_center, com, d) ==
    PreviewShapes(centers, 1, PreviewNormal(face_normal, face_center, com), d)

\* The points and the lists of points the assembly is run on.
AssemblyPoints == { <<0, 0, 0>>, <<20, 0, 0>> }
AssemblyCenters == UNION {[1..n -> AssemblyPoints] : n \in 1..MaxPoints}

InitAssembly ==
    /\ InitWorkflow
    /\ dxf = DxfOff /\ pv = PvOff /\ pat = PatOff /\ dlg = DlgOff /\ prof = ProfOff
    /\ \E centers \in AssemblyCenters, n \in AxisDirs, side \in {0 - 1, 1},
          name \in DOMAIN INSERT_TYPES, hole \in HoleTypes, hd \in HoleDepths :
          asm = [pc |-> "input", centers |-> centers, normal |-> n,
                 face_center |-> Scale(n, side), com |-> <<0, 0, 0>>,
                 insert_type |-> name, pocket_depth |-> DefaultPocketDepth,
                 hole_type |-> hole, hole_depth |-> hd,
                 countersink_angle |-> DefaultCountersinkAngle,
                 shapes |-> <<>>]

\* preview = make_preview(centers, obj, face, dialog_data) (l.385, l.703).
AssemblePreview ==
    /\ asm.pc = "input"
    /\ asm' = [asm EXCEPT !.pc = "done",
                  !.shapes = make_preview(asm.centers, asm.normal,
                      asm.face_center, asm.com,
                      [insert |-> INSERT_TYPES[asm.insert_type],
                       pocket_depth |-> asm.pocket_depth,
                       hole_type |-> asm.hole_type,
                       hole_depth |-> asm.hole_depth,
                       countersink_angle |-> asm.countersink_angle])]
    /\ UNCHANGED <<wvars, dxf, pv, pat, dlg, prof>>

NextAssembly == AssemblePreview

SpecAssembly == InitAssembly /\ [][NextAssembly]_vars

\* ------------------------------------------------ the dialog on its own
\* QComboBox.setCurrentText on a combo box that is not editable (l.130,
\* l.136: the default): the item of that text becomes current when there is
\* one, and nothing changes otherwise.
setCurrentText_Editable(items, current, text) == text

setCurrentText(items, current, text) ==
    IF text \in items THEN text ELSE current

\* QSpinBox.setValue on the count box (l.88, l.263): the value is forced
\* into the range of the box.
setValue(v) ==
    IF v < MinCount THEN MinCount ELSE IF v > MaxSpinCount THEN MaxSpinCount ELSE v

\* The values of a preset file (json.load, l.253): a text, a number, or
\* nothing when the key is missing.
Text(t) == [kind |-> "text", t |-> t, n |-> 0]
Number(n) == [kind |-> "number", t |-> "", n |-> n]
Missing == [kind |-> "missing", t |-> "", n |-> 0]

\* The insert_type, hole_type and count values of the preset files loaded.
PresetInserts == {Missing, Number(0), Text("M4 Heat-Set"), Text("M5 Square Nut"),
                  Text("M8 Captive Nut"), Text("")}
PresetHoles == {Missing, Text("Countersunk"), Text("Oval")}
PresetCounts == {Missing, Number(0 - 1), Number(0), Number(2),
                 Number(MaxSpinCount + 1)}

\* preset.get(key, default)
Get(v, default) == IF v.kind = "missing" THEN default ELSE v

\* load_preset (l.238-272) on the widgets w, for a preset file that exists.
\* A setter that raises (a value that is no text) ends the slot; asked is
\* the value the insert combo box was last asked to show.
load_preset(w, preset) ==
    LET it == Get(preset.insert_type, Text("M3 Captive Nut"))          \* l.255
        ht == Get(preset.hole_type, Text("Through All"))               \* l.257
        n  == Get(preset.count, Number(DefaultCount))                  \* l.263
        w1 == [w EXCEPT !.asked = it,
                        !.type_combo = setCurrentText(DOMAIN INSERT_TYPES, @, it.t)]
        w2 == [w1 EXCEPT !.hole_type = setCurrentText(HoleTypes, @, ht.t)]
        w3 == [w2 EXCEPT !.count_spin = setValue(n.n)]
    IN  IF it.kind # "text" THEN [w EXCEPT !.asked = it] ELSE w3

\* The widgets after CaptiveNutDialog.__init__ (l.130-137, l.87-89): the
\* first item of each combo box is current.
InitDialog ==
    /\ InitWorkflow
    /\ dxf = DxfOff /\ pv = PvOff /\ pat = PatOff /\ asm = AsmOff /\ prof = ProfOff
    /\ dlg = [pc |-> "open", type_combo |-> "M3 Captive Nut",
              hole_type |-> "Through All", count_spin |-> DefaultCount,
              asked |-> Missing, insert |-> "-"]

\* The user picks an item of the insert combo box.
DialogSelectInsert ==
    /\ dlg.pc = "open"
    /\ \E name \in DOMAIN INSERT_TYPES : dlg' = [dlg EXCEPT !.type_combo = name]
    /\ UNCHANGED <<wvars, dxf, pv, pat, asm, prof>>

\* The user presses Load Preset.
DialogLoadPreset ==
    /\ dlg.pc = "open"
    /\ \E it \in PresetInserts, ht \in PresetHoles, n \in PresetCounts :
          dlg' = load_preset(dlg, [insert_type |-> it, hole_type |-> ht,
                                   count |-> n])
    /\ UNCHANGED <<wvars, dxf, pv, pat, asm, prof>>

\* The dialog is accepted: Activated reads dialog_data["insert_type"] from
\* the combo box (l.308) and the workflow looks it up in the registry
\* (l.372, l.555, l.690).
DialogAccept ==
    /\ dlg.pc = "open"
    /\ dlg' = [dlg EXCEPT !.pc = "accepted", !.insert = Lookup(dlg.type_combo)]
    /\ UNCHANGED <<wvars, dxf, pv, pat, asm, prof>>

NextDialog == DialogSelectInsert \/ DialogLoadPreset \/ DialogAccept

SpecDialog == InitDialog /\ [][NextDialog]_vars

\* =================================================================
\* Properties
\* =================================================================
PerPointKinds == {"NutSketch", "NutPocket", "BoltSketch", "BoltHole"}

Has(l, ev) == \E j \in 1..Len(l) : l[j] = ev
HasCh(l, ch) == \E j \in 1..Len(l) : l[j].ch = ch
ObjsOf(S, o) == {x \in S : x.o = o}

BodyQuestion(ev) ==
    ev.ch = "dialog" /\ ev.what \in {"Create Pockets in Body?", "Create Pockets?"}
CutQuestion(ev) == ev.ch = "dialog" /\ ev.what = "Confirm Boolean Cut"
Yes == Ev("reply", "Yes", 0)
No == Ev("reply", "No", 0)

\* The operation asked a question of kind Q and got Yes before position j.
Confirmed(l, Q(_), j) ==
    \E q \in 1..Len(l), r \in 1..Len(l) : q < r /\ r < j /\ Q(l[q]) /\ l[r] = Yes

\* ------------------------------------------------------------------- C1
\* What a workflow that only waits for the edit session has done: it has
\* created its sketch and nothing else.
OnlySetUp(w) ==
    /\ \A j \in 1..Len(log[w]) : log[w][j] \in {Ev("doc", "UserSketch", 0),
                                               Ev("body", "UserSketch", 0)}
    /\ ObjsOf(doc, w) \subseteq {UserSketch(w)}
    /\ op[w].centers = <<>>
    /\ op[w].phase \in {"delay", "polling"}

\* C1: once a workflow is cancelled while it waits for the edit session, it
\* has extracted nothing, asked nothing and created nothing, and every later
\* step leaves it so: no poll callback runs for it (its poll count and its
\* timer do not change), its locals, its log and its objects stay as they
\* are, whether or not the edit session ends.
C1_CancelStopsWorkflow ==
    [][\A w \in Workflows :
         /\ cancelled'[w] => OnlySetUp(w)' /\ ~timer'[w].on
         /\ cancelled[w] =>
               /\ cancelled'[w]
               /\ polled'[w] = polled[w]
               /\ op'[w] = op[w] /\ log'[w] = log[w] /\ timer'[w] = timer[w]
               /\ ObjsOf(doc', w) = ObjsOf(doc, w)
               /\ ObjsOf(body', w) = ObjsOf(body, w)]_vars

\* A workflow was cancelled during the recurring poll, after a poll, and the
\* edit session has ended since.
C1_Witness ==
    \E w \in Workflows :
        cancelled[w] /\ op[w].phase = "polling" /\ polled[w] > 0 /\ inEdit = 0

\* ------------------------------------------------------------------- C2
CallsOf(l) == SelectSeq(l, LAMBDA ev : ev.ch = "call")
AskedCount(l) == l[CHOOSE q \in 1..Len(l) : BodyQuestion(l[q])].i
BodyCommitted(o) ==
    /\ op[o].phase = "done"
    /\ \E q \in 1..Len(log[o]) : BodyQuestion(log[o][q])
    /\ Has(log[o], Yes)

\* C2: after a body-path commit over n points, create_partdesign_pocket was
\* called once for every point, in the order 1..n, whichever calls failed,
\* and every failure is followed at once by the console line "Failed pocket"
\* with the 1-based index of the point whose call raised.
C2_AllPointsAttempted ==
    \A o \in Ops :
        BodyCommitted(o) =>
            LET l == log[o]
                n == AskedCount(l)
                calls == CallsOf(l)
            IN  /\ Len(calls) = n
                /\ \A i \in 1..n : calls[i].i = i
                /\ \A j \in 1..Len(l) :
                      (l[j].ch = "raise" /\ l[j].what \in FailSteps) =>
                          /\ j < Len(l)
                          /\ l[j + 1] = Ev("console", "Failed pocket", l[j].i)
                          /\ \E c \in 1..(j - 1) :
                                /\ l[c] = Ev("call", "create_partdesign_pocket", l[j].i)
                                /\ \A m \in (c + 1)..j : l[m].ch # "call"
                /\ \A j \in 1..Len(l) :
                      (l[j].ch = "console" /\ l[j].what = "Failed pocket") =>
                          j > 1 /\ l[j - 1].ch = "raise" /\ l[j - 1].i = l[j].i

\* The first of two points failed and the second was created.
C2_Witness ==
    \E o \in Ops :
        /\ BodyCommitted(o)
        /\ Has(log[o], Ev("console", "Failed pocket", 1))
        /\ \E x \in body : x.kind = "BoltHole" /\ x.o = o /\ x.i = 2

\* ------------------------------------------------------------------- C3
\* C3 (as claimed): a point whose feature creation failed has left no object
\* in the document or in the body.
C3_FailedPointLeavesNothing ==
    \A o \in Ops : \A j \in 1..Len(log[o]) :
        (log[o][j].ch = "console" /\ log[o][j].what = "Failed pocket") =>
            ~ \E x \in doc \cup body :
                  x.o = o /\ x.i = log[o][j].i /\ x.kind \in PerPointKinds

\* ------------------------------------------------------------------- C4
\* C4 (as claimed): an operation that reported that there are no placement
\* points is done and the document and the body are as they were before it
\* started, which is empty.
C4_NoPointsNoMutation ==
    \A o \in Ops :
        (Has(log[o], Ev("dialog", "No Centers", 0))
            \/ Has(log[o], Ev("dialog", "No Circles", 0))) =>
                op[o].phase = "done" /\ doc = {} /\ body = {}

\* ------------------------------------------------------------------- C5
RECURSIVE Preorder(_, _), PreorderKids(_, _, _)
\* The nodes below and including v, depth first, children in list order.
Preorder(t, v) == <<v>> \o PreorderKids(t, v, v + 1)
PreorderKids(t, v, from) ==
    IF from > Len(t.parent) THEN <<>>
    ELSE (IF t.parent[from] = v THEN Preorder(t, from) ELSE <<>>)
         \o PreorderKids(t, v, from + 1)

RECURSIVE CentersOfNodes(_, _, _)
\* The circle centers of the nodes of the list ns that are in K, in order.
CentersOfNodes(t, ns, K) ==
    IF ns = <<>> THEN <<>>
    ELSE (IF Head(ns) \in K THEN OwnCenters(t, Head(ns), 1) ELSE <<>>)
         \o CentersOfNodes(t, Tail(ns), K)

NodesOf(t) == 1..Len(t.parent)

\* The node's own tag equals the filter (every node under "All").
OwnTagMatches(t, v, f) == f = "All" \/ t.proxy[v] = f

\* The node carries a Proxy whose layer is not the filter.
Mismatch(t, v, f) == f # "All" /\ t.proxy[v] \notin {"noproxy", f}

RECURSIVE PathClear(_, _, _)
\* No node from the root down to v carries a Proxy of another layer.
PathClear(t, v, f) ==
    v = 0 \/ (~Mismatch(t, v, f) /\ PathClear(t, t.parent[v], f))

\* C5 (as claimed): the result is the depth-first list of the circle centers
\* of exactly the nodes whose own layer tag equals the filter.
C5_PerNodeFilter ==
    dxf.pc = "done" =>
        dxf.centers = CentersOfNodes(dxf.tree, Preorder(dxf.tree, 1),
            {v \in NodesOf(dxf.tree) : OwnTagMatches(dxf.tree, v, dxf.filter)})

\* C5 (amended): the result is the depth-first list of the circle centers of
\* exactly the nodes that have no Proxy of another layer (or without a
\* layer) on the path from the root down to themselves; a node without a
\* Proxy passes any filter, and a node with a Proxy of another layer hides
\* its whole subtree.
C5_SubtreeFilter ==
    dxf.pc = "done" =>
        dxf.centers = CentersOfNodes(dxf.tree, Preorder(dxf.tree, 1),
            {v \in NodesOf(dxf.tree) : PathClear(dxf.tree, v, dxf.filter)})

\* A matching node with a circle under a parent of another layer is left
\* out, and a node without a Proxy is let through a layer filter.
C5_Witness ==
    /\ dxf.pc = "done" /\ dxf.filter # "All"
    /\ \E v \in NodesOf(dxf.tree) :
          /\ v > 1 /\ dxf.tree.proxy[v] = dxf.filter
          /\ dxf.tree.proxy[dxf.tree.parent[v]] \in {"L1", "L2"} \ {dxf.filter}
          /\ dxf.tree.edges[v] = <<"line", "circle">>
          /\ ~Has(dxf.centers, EdgeCenter(v, 2))
    /\ \E u \in NodesOf(dxf.tree) :
          /\ dxf.tree.proxy[u] = "noproxy"
          /\ Has(dxf.centers, EdgeCenter(u, 2))

\* ------------------------------------------------------------------- C6
\* The outward normal of the claim: the face normal when it points away from
\* the body's centroid, its negation otherwise.
Outward(n, f, b) == IF Dot(n, VSub(f, b)) > 0 THEN n ELSE Scale(n, -1)

\* C6 (as claimed): the placement takes local +Z to the outward normal, and
\* the direction the pocket and the hole are extruded along points into the
\* solid (against the outward normal).
C6_OutwardOrientation ==
    pv.pc = "done" =>
        /\ pv.zaxis = Outward(pv.normal, pv.face_center, pv.com)
        /\ Dot(pv.extrude, Outward(pv.normal, pv.face_center, pv.com)) < 0

\* ------------------------------------------------------------------- C7
\* C7: on the boolean path the preview is in the document, and was added,
\* before the question is asked; the cut object is created only after a Yes
\* to that question, so never after a No and never with auto-apply disabled
\* (when no question is asked).
C7_PreviewBeforeQuestion ==
    \A o \in Ops :
        LET l == log[o]
        IN  /\ \A q \in 1..Len(l) :
                  CutQuestion(l[q]) =>
                      /\ \E p \in 1..(q - 1) : l[p] = Ev("doc", "Preview", 0)
                      /\ Preview(o) \in doc
            /\ \A j \in 1..Len(l) :
                  l[j] = Ev("doc", "Cut", 0) => Confirmed(l, CutQuestion, j)
            /\ CutObj(o) \in doc => Has(l, Ev("doc", "Cut", 0))
            /\ (Has(l, No) \/ ~op[o].d.auto_boolean) => CutObj(o) \notin doc
            /\ (op[o].phase = "done" /\ ~op[o].d.is_partdesign
                  /\ ~op[o].d.auto_boolean /\ ~HasCh(l, "raise")
                  /\ ~HasCh(l, "dialog"))
                    => Preview(o) \in doc

\* A sketch workflow has cut after a Yes, with its preview in the document.
C7_Witness ==
    \E w \in Workflows :
        /\ op[w].phase = "done" /\ Has(log[w], Yes)
        /\ CutObj(w) \in doc /\ Preview(w) \in doc

\* ------------------------------------------------------------------- C8
\* C8: on the body path no nut or bolt object is created or added to the
\* body before the question was asked and answered Yes; after a No, and with
\* auto-apply disabled, the operation has none.
C8_ConfirmBeforeFeatures ==
    \A o \in Ops :
        LET l == log[o]
        IN  /\ \A j \in 1..Len(l) :
                  ((l[j].ch \in {"doc", "body"} /\ l[j].what \in PerPointKinds)
                      \/ l[j].ch = "call")
                    => Confirmed(l, BodyQuestion, j)
            /\ \A x \in ObjsOf(doc \cup body, o) :
                  x.kind \in PerPointKinds =>
                      \E j \in 1..Len(l) :
                          l[j].ch \in {"doc", "body"} /\ l[j].what = x.kind
                            /\ l[j].i = x.i
            /\ (Has(l, No) \/ ~op[o].d.auto_boolean) =>
                  ~ \E x \in ObjsOf(doc \cup body, o) : x.kind \in PerPointKinds

\* The command has put a bolt hole into the body after a Yes.
C8_Witness ==
    /\ op[Cmd].phase = "done" /\ Has(log[Cmd], Yes)
    /\ \E x \in body : x.o = Cmd /\ x.kind = "BoltHole"

\* ------------------------------------------------------------------- C9
\* C9: with hole mode Countersunk on the body path, every bolt-hole pocket
\* is Blind with the requested hole depth as its Length, the warning box of
\* its point was shown after the point's call started and before the pocket
\* was added to the body, and the loop went on: every point was called.
C9_CountersinkWarned ==
    \A o \in Ops :
        (op[o].d.is_partdesign /\ op[o].d.hole_type = "Countersunk") =>
            LET l == log[o]
            IN  /\ \A x \in ObjsOf(doc \cup body, o) :
                      x.kind = "BoltHole" =>
                          x.type = "Blind" /\ x.len = op[o].d.hole_depth
                /\ \A j \in 1..Len(l) :
                      (l[j].ch \in {"doc", "body"} /\ l[j].what = "BoltHole") =>
                          \E c \in 1..Len(l), p \in 1..Len(l) :
                              /\ l[c] = Ev("call", "create_partdesign_pocket", l[j].i)
                              /\ l[p] = Ev("dialog", "Countersink Not Supported", l[j].i)
                              /\ c < p
                              /\ (l[j].ch = "body" => p < j)
                /\ BodyCommitted(o) => Len(CallsOf(l)) = AskedCount(l)

\* Two countersunk holes were committed, each Blind with the depth asked.
C9_Witness ==
    \E o \in Ops :
        /\ op[o].d.is_partdesign /\ op[o].d.hole_type = "Countersunk"
        /\ op[o].d.hole_depth = MinHoleDepth
        /\ \A i \in 1..2 :
              Obj("BoltHole", o, i, "Blind", MinHoleDepth) \in body

\* ------------------------------------------------------------------ C10
CutErrors == {Ev("dialog", "Boolean Failed", 0),
              Ev("console", "Sketch processing error", 0)}

\* C10: when the cut raises after the Yes, the operation reports the error
\* (the "Boolean Failed" box from Activated, the error line of
\* on_sketch_finished) and does nothing after it: it is done, the cut was
\* tried once, the preview is in the document, and every object the
\* operation added to the document is still there.
C10_CutFailureIsFinal ==
    \A o \in Ops :
        LET l == log[o]
        IN  \A j \in 1..Len(l) :
                l[j] = Ev("raise", "cut", 0) =>
                    /\ Confirmed(l, CutQuestion, j)
                    /\ op[o].phase = "done"
                    /\ j + 1 = Len(l) /\ l[j + 1] \in CutErrors
                    /\ Cardinality({m \in 1..Len(l) : l[m] = Ev("doc", "Cut", 0)}) <= 1
                    /\ Preview(o) \in doc
                    /\ \A m \in 1..Len(l) :
                          l[m].ch = "doc" =>
                              \E x \in ObjsOf(doc, o) :
                                  x.kind = l[m].what /\ x.i = l[m].i

\* A sketch workflow's cut raised in the recompute, after the cut object was
\* added.
C10_Witness ==
    \E w \in Workflows :
        /\ Has(log[w], Ev("raise", "cut", 0))
        /\ CutObj(w) \in doc /\ op[w].phase = "done"

\* ------------------------------------------------------------------ C11
\* The base-point text is malformed: fewer than three components, or a token
\* that is not a number.
Malformed(toks) == Len(toks) < 3 \/ \E j \in 1..Len(toks) : ~toks[j].ok

\* C11 (as claimed): a pattern run whose base-point text is malformed, or
\* whose count is below 1, has reported "Invalid pattern input" and has done
\* nothing else: it is done, it has created no object and asked nothing.
C11_InvalidPatternRejected ==
    (op[Cmd].source = "Pattern Generator"
        /\ (Malformed(op[Cmd].d.base_point) \/ op[Cmd].d.count < 1)) =>
            /\ op[Cmd].phase = "done"
            /\ log[Cmd] = <<Ev("dialog", "Invalid pattern input", 0)>>
            /\ ObjsOf(doc \cup body, Cmd) = {}

\* ------------------------------------------------------------------ C12
\* The base point a well-formed text denotes.
BaseOf(toks) == <<toks[1].v, toks[2].v, toks[3].v>>

\* C12: a Linear pattern has exactly count points, and its i-th point
\* (i = 0..count-1) is the base moved by i * spacing along X; for the base
\* (0,0,0), spacing 20 and count 3 these are (0,0,0), (20,0,0), (40,0,0).
C12_LinearPattern ==
    (pat.pc = "done" /\ pat.pattern_type = "Linear") =>
        /\ Len(pat.centers) = pat.count
        /\ \A i \in 0..(pat.count - 1) :
              pat.centers[i + 1] =
                  VAdd(BaseOf(pat.base_point), <<i * pat.linear_spacing, 0, 0>>)
        /\ (pat.base_point = DefaultBasePoint /\ pat.linear_spacing = 20
               /\ pat.count = 3)
             => pat.centers = << <<0, 0, 0>>, <<20, 0, 0>>, <<40, 0, 0>> >>

\* The pattern of the example was generated.
C12_Witness ==
    /\ pat.pc = "done" /\ pat.pattern_type = "Linear"
    /\ pat.base_point = DefaultBasePoint /\ pat.linear_spacing = 20
    /\ pat.count = 3
    /\ pat.centers[3] = <<40, 0, 0>>

\* ------------------------------------------------------------------ C13
\* C13: whatever was selected and whatever presets were loaded, the insert
\* combo box holds a key of the registry, and the lookup made with the
\* accepted dialog's insert type succeeds and yields the insert selected.
C13_InsertAlwaysKnown ==
    dlg.pc # "off" =>
        /\ dlg.type_combo \in DOMAIN INSERT_TYPES
        /\ dlg.pc = "accepted" =>
              /\ dlg.insert # "KeyError"
              /\ dlg.insert = dlg.type_combo

\* A preset naming an insert the registry lacks was loaded last, after
\* another insert had been selected, and the dialog was accepted.
C13_Witness ==
    /\ dlg.pc = "accepted"
    /\ dlg.asked = Text("M8 Captive Nut")
    /\ dlg.insert = "M6 Captive Nut"

\* ------------------------------------------------------------------ C14
\* The instance waits for the edit session to end.
Awaiting(w) == op[w].phase \in {"delay", "polling"}
PollTimerOn(w) == timer[w] = [kind |-> "poll", on |-> TRUE]

\* C14: no poll runs before the single-shot delay has fired; an instance
\* leaves the wait only in a poll (a timeout of its running poll timer) that
\* finds no edit session, and then holds the centers of its sketch's
\* circles; while a session is open it goes on waiting, however many polls
\* have run; and, the timers firing, an instance that waits and is not
\* cancelled while no session is open eventually leaves the wait, is
\* cancelled, or sees a session opened again.
C14_WaitsForClose ==
    /\ [][\A w \in Workflows :
            /\ polled'[w] # polled[w] => (op[w].phase = "polling" /\ PollTimerOn(w))
            /\ op[w].phase = "delay" => polled[w] = 0
            /\ (Awaiting(w) /\ ~Awaiting(w)') =>
                  /\ op[w].phase = "polling" /\ PollTimerOn(w)
                  /\ inEdit = 0
                  /\ ~cancelled[w]
                  /\ Has(log'[w], Ev("read", "UserSketch", w))
                  /\ op'[w].phase = "confirm" =>
                        op'[w].centers = extract_centers_from_sketch(geometry[w], 1)
            /\ (Awaiting(w) /\ inEdit # 0) => Awaiting(w)']_vars
    /\ \A w \in Workflows :
          (Awaiting(w) /\ ~cancelled[w] /\ inEdit = 0)
              ~> (~Awaiting(w) \/ cancelled[w] \/ inEdit # 0)

\* An instance left the wait with two points after it had polled more than
\* once, so at least once while the session was open.
C14_Witness ==
    \E w \in Workflows :
        /\ op[w].phase = "confirm" /\ Len(op[w].centers) = 2
        /\ polled[w] >= 2

\* ------------------------------------------------------------------ C15
\* The steps between the states of a run.  AwaitingPoints is the handler
\* before it has its points (idle here), AwaitingSketchEdit is delay and
\* polling, PointsReady lies inside the handler that extracts the points,
\* AwaitingConfirmation is confirm, Committing the handler of the answer.
WorkflowSteps == {<<"idle", "delay">>, <<"idle", "failed">>,
                  <<"delay", "polling">>, <<"polling", "confirm">>,
                  <<"polling", "done">>, <<"confirm", "done">>}
CommandSteps == {<<"idle", "confirm">>, <<"idle", "done">>, <<"confirm", "done">>}

Reads(l) == {j \in 1..Len(l) : l[j].ch = "read"}
Asks(l) == {j \in 1..Len(l) : l[j].ch = "dialog" /\ l[j].what \in QuestionTitles}
Replies(l) == {j \in 1..Len(l) : l[j].ch = "reply"}

\* C15: every step of an operation is a step of the state machine; only an
\* operation of the sketch source waits for an edit session; an operation
\* that is done changes nothing any more; and every instance, whatever the
\* other instances and their polls do, has extracted at most once, from its
\* own sketch, has asked at most once and has committed at most once.
C15_StateMachine ==
    [][\A o \in Ops :
         /\ op'[o].phase # op[o].phase =>
               <<op[o].phase, op'[o].phase>> \in
                   (IF o = Cmd THEN CommandSteps ELSE WorkflowSteps)
         /\ op'[o].phase \in {"delay", "polling"} =>
               (o \in Workflows /\ op'[o].source = "Sketch Circles")
         /\ op[o].phase \in {"done", "failed"} =>
               /\ op'[o] = op[o] /\ log'[o] = log[o]
               /\ ObjsOf(doc', o) = ObjsOf(doc, o)
               /\ ObjsOf(body', o) = ObjsOf(body, o)
               /\ o \in Workflows => (timer'[o] = timer[o] /\ ~timer[o].on)
         /\ Cardinality(Reads(log'[o])) <= 1
         /\ \A j \in Reads(log'[o]) : log'[o][j].i = o
         /\ Cardinality(Asks(log'[o])) <= 1
         /\ Cardinality(Replies(log'[o])) <= 1
         /\ op'[o].phase = "confirm" =>
               (o \in Workflows =>
                   op'[o].centers = extract_centers_from_sketch(geometry'[o], 1))]_vars

\* Two instances have each extracted the points of their own sketch, the
\* first inside the event loop of the question box of the second.
C15_Witness ==
    /\ op[1].phase = "confirm" /\ op[2].phase = "confirm"
    /\ modal = <<1, 2>>
    /\ Len(op[1].centers) = 1 /\ Len(op[2].centers) = 1
    /\ op[1].centers # op[2].centers

\* ------------------------------------------------------------------ C16
Occurrences(seq, x) == Cardinality({j \in 1..Len(seq) : seq[j] = x})

\* Calling cleanup once more changes neither the active set nor the timer.
CleanupIsIdle(w) ==
    cleanup(w, active, timer[w]) = [active |-> active, timer |-> timer[w]]

\* C16 (as claimed): an instance is in the active set at most once; from its
\* construction until it is done (or cancelled) it is in the set and its
\* sketch is in the document; once done it is not in the set, its timer is
\* inactive and another cleanup changes nothing.
C16_RegisteredUntilDone ==
    \A w \in Workflows :
        /\ Occurrences(active, w) <= 1
        /\ (op[w].phase \in {"delay", "polling", "confirm"} /\ ~cancelled[w]) =>
              (InList(active, w) /\ UserSketch(w) \in doc)
        /\ op[w].phase = "done" =>
              (~InList(active, w) /\ ~timer[w].on /\ CleanupIsIdle(w))

\* C16 (amended): an instance is in the active set at most once; while it
\* waits for the edit session and is not cancelled it is in the set, its
\* timer runs and its sketch is in the document; from the poll that finds
\* the session closed on (while the question is open and when it is done)
\* and after a cancel it is not in the set, its timer is inactive and another
\* cleanup changes nothing; an instance whose construction failed never
\* enters the set.
C16_RegisteredWhileWaiting ==
    \A w \in Workflows :
        /\ Occurrences(active, w) <= 1
        /\ (Awaiting(w) /\ ~cancelled[w]) =>
              (InList(active, w) /\ timer[w].on /\ UserSketch(w) \in doc)
        /\ (op[w].phase \in {"confirm", "done"} \/ cancelled[w]) =>
              (~InList(active, w) /\ ~timer[w].on /\ CleanupIsIdle(w))
        /\ op[w].phase \in {"idle", "failed"} =>
              (~InList(active, w) /\ ~timer[w].on)
        /\ op[w].phase \in {"confirm", "done"} => UserSketch(w) \in doc

\* The question box of one instance is open and only the other instance,
\* which still waits, is in the active set.
C16_Witness ==
    /\ op[1].phase = "confirm" /\ op[2].phase = "polling" /\ ~cancelled[2]
    /\ active = <<2>>

\* ------------------------------------------------------------------ C17
\* C17: the list assembled for N points has 2N solids; the solids 2i-1 and
\* 2i are the pocket and the hole of point i, both based at point i; all
\* solids carry one orientation, the one computed from the face; the pocket
\* has the pocket depth, and the hole is, by the hole mode alone, a cylinder
\* of length 1000 (Through All), the cylinder of the requested depth fused
\* with the cone of the head (Countersunk), or a cylinder of the requested
\* depth (Blind Hole).
C17_FlatCompound ==
    asm.pc = "done" =>
        LET N == Len(asm.centers)
            sh == asm.shapes
        IN  /\ Len(sh) = 2 * N
            /\ \A j \in 1..Len(sh) :
                  sh[j].rot = PreviewNormal(asm.normal, asm.face_center, asm.com)
            /\ \A i \in 1..N :
                  /\ sh[2 * i - 1].base = asm.centers[i]
                  /\ sh[2 * i].base = asm.centers[i]
                  /\ sh[2 * i - 1].solid.kind \in {"lines", "circle"}
                  /\ sh[2 * i - 1].solid.depth = asm.pocket_depth
                  /\ sh[2 * i - 1].solid = sh[1].solid
                  /\ sh[2 * i].solid = sh[2].solid
                  /\ CASE asm.hole_type = "Through All" ->
                            /\ sh[2 * i].solid.kind = "circle"
                            /\ sh[2 * i].solid.depth = 1000
                       [] asm.hole_type = "Countersunk" ->
                            /\ sh[2 * i].solid.kind = "fuse"
                            /\ sh[2 * i].solid.bottom.depth = asm.hole_depth
                       [] OTHER ->
                            /\ sh[2 * i].solid.kind = "circle"
                            /\ sh[2 * i].solid.depth = asm.hole_depth

\* Two points, the second not the first, were assembled with a through hole
\* although a depth of 1 was entered.
C17_Witness ==
    /\ asm.pc = "done" /\ Len(asm.shapes) = 4
    /\ asm.centers[1] # asm.centers[2]
    /\ asm.hole_type = "Through All" /\ asm.hole_depth = MinHoleDepth
    /\ asm.shapes[4].base = asm.centers[2]

\* ------------------------------------------------------------------ C18
\* The points of a line outline, and their distances from and angles about
\* the origin.
Corners(g) == {g.segs[i][k] : i \in 1..Len(g.segs), k \in 1..2}

\* C18: for every insert of the registry the nut sketch and the bolt sketch
\* of the native path, taken relative to the local center, are the outlines
\* of the pocket and of the hole of the boolean path; and these are, for a
\* hex insert, the six sides between the corners at distance
\* (nut width + 1.0)/2 and angles 30 + 60k degrees, for a rect insert the
\* rectangle of half extents nut_width/2 + 0.5 and nut_height/2 + 0.5, for a
\* round insert the circle of radius pocket_diameter/2 (or
\* (nut width + 0.2)/2), and for the bolt the circle of radius
\* bolt_clearance/2.
C18_SameProfiles ==
    prof.pc = "done" =>
        LET data == INSERT_TYPES[prof.insert]
            nut == RelGeometry(prof.nut_sketch, prof.center[1], prof.center[2])
            bolt == RelGeometry(prof.bolt_sketch, prof.center[1], prof.center[2])
            w == data.nut[1]
            h == data.nut[2]
        IN  /\ nut = Outline(prof.pocket)
            /\ bolt = Outline(prof.hole)
            /\ bolt.kind = "circle" /\ 2 * bolt.radius = data.bolt_clearance
            /\ bolt.center = Pt(0, 0, 0, 0)
            /\ data.pocket_style = "hex" =>
                  /\ nut.kind = "lines" /\ Len(nut.segs) = 6
                  /\ Corners(nut) =
                        {[x |-> 0, y |-> 0, r |-> Half(w + 100), deg |-> 30 + 60 * k] :
                            k \in 0..5}
                  /\ 2 * Half(w + 100) = w + 100
                  /\ \A i \in 1..6 :
                        nut.segs[i][2].deg = (nut.segs[i][1].deg + 60) % 360
            /\ data.pocket_style = "rect" =>
                  /\ nut.kind = "lines" /\ Len(nut.segs) = 4
                  /\ 2 * Half(w) = w /\ 2 * Half(h) = h
                  /\ Corners(nut) =
                        {[x |-> sx * (Half(w) + 50), y |-> sy * (Half(h) + 50),
                          r |-> 0, deg |-> 0] : sx \in {0 - 1, 1}, sy \in {0 - 1, 1}}
            /\ data.pocket_style = "round" =>
                  /\ nut.kind = "circle" /\ nut.center = Pt(0, 0, 0, 0)
                  /\ 2 * nut.radius =
                        (IF "pocket_diameter" \in DOMAIN data
                         THEN data.pocket_diameter ELSE w + 20)

\* The profiles of a hex insert were drawn around a local center other than
\* the origin.
C18_Witness ==
    /\ prof.pc = "done" /\ prof.insert = "M4 Captive Nut"
    /\ prof.center = <<1, 0 - 1>>
    /\ prof.nut_sketch.segs[6][2] = Pt(1, 0 - 1, 400, 30)

=============================================================================
